---- MODULE Spec2Model ----
(***************************************************************************)
(* Payload range proofs of the ADVZ verifiable-information-dispersal       *)
(* scheme (primitives/src/vid/advz/payload_prover.rs).                     *)
(*                                                                         *)
(* A payload is a byte sequence.  elem_byte_capacity bytes are packed into *)
(* one field element, payload_chunk_size elements form one polynomial.     *)
(* payload_proof builds a SmallRangeProof or a LargeRangeProof for a byte  *)
(* range, payload_verify checks a Statement against such a proof.          *)
(*                                                                         *)
(* Byte indices, element indices and polynomial indices are 0-based as in  *)
(* the source; TLA+ sequences are 1-based, so byte i of the payload is     *)
(* payload[i + 1].                                                         *)
(***************************************************************************)
EXTENDS Integers, Sequences, FiniteSets, TLC

VARIABLES
    payload,    \* the prover's payload: a sequence of bytes
    range,      \* the byte range handed to payload_proof: [start, end]
    kind,       \* which PayloadProver impl is in use: "small" or "large"
    proofRes,   \* what payload_proof returned
    stmt,       \* the Statement handed to payload_verify
    proof,      \* the proof handed to payload_verify
    tamper,     \* what was done to (stmt, proof) after the prover made them
    verRes,     \* what payload_verify returned
    phase,      \* "start", "proved", "ready", "verified"; "conv" in SpecConv
    conv        \* SpecConv: the last index conversion applied to range

vars == <<payload, range, kind, proofRes, stmt, proof, tamper, verRes, phase, conv>>

----------------------------------------------------------------------------
(* Bounds of the model. *)

\* bytes are 0 .. ByteMax (u8 in the source)
ByteMax == 1
\* bytes per field element (31 for the BLS12-381 scalar field)
elem_byte_capacity == 2
\* field elements per polynomial (Advz::new parameter; 4 in the test)
payload_chunk_size == 2
\* longest payload, in bytes
MaxPayloadLen == 5
\* largest denominator tried on range_coarsen in SpecConv
MaxDenominator == 4

Byte == 0 .. ByteMax
ByteBase == ByteMax + 1

Min(a, b) == IF a < b THEN a ELSE b

----------------------------------------------------------------------------
(* Range<usize> *)

Range(s, e) == [start |-> s, end |-> e]

\* Range::is_empty: start >= end
is_empty(r) == r.start >= r.end

\* Range::len (ExactSizeIterator): 0 for an empty range
range_len(r) == IF r.start >= r.end THEN 0 ELSE r.end - r.start

\* What a failed assert!(!range.is_empty()) leaves behind: the call does not
\* return.  No usize is negative, so no range the code computes equals it,
\* and it is itself empty, so it propagates through further conversions.
PANIC == Range(-1, -1)

----------------------------------------------------------------------------
(* Index conversions, lines 337-359 *)

index_coarsen(index, denominator) == index \div denominator

index_refine(index, multiplier) == index * multiplier

\* a bug: the exclusive end coarsened, not the last index
range_coarsen_end_excl(r, denominator) ==
    IF is_empty(r) THEN PANIC
    ELSE Range(index_coarsen(r.start, denominator),
               index_coarsen(r.end, denominator))

range_coarsen(r, denominator) ==
    IF is_empty(r) THEN PANIC
    ELSE Range(index_coarsen(r.start, denominator),
               index_coarsen(r.end - 1, denominator) + 1)

range_refine(r, multiplier) ==
    IF is_empty(r) THEN PANIC
    ELSE Range(index_refine(r.start, multiplier),
               index_refine(r.end, multiplier))

(* Advz's conversions, lines 266-296 *)

index_byte_to_elem(index) == index_coarsen(index, elem_byte_capacity)

\* a bug: a polynomial's elements counted as its bytes
index_poly_to_byte_by_chunk(index) ==
    index_refine(index, payload_chunk_size)

index_poly_to_byte(index) ==
    index_refine(index, payload_chunk_size * elem_byte_capacity)

range_byte_to_elem(r) == range_coarsen(r, elem_byte_capacity)

range_elem_to_byte(r) == range_refine(r, elem_byte_capacity)

\* a bug: the clamp forgotten
range_elem_to_byte_unclamped(r, len) == range_elem_to_byte(r)

\* a bug: the end set to the payload's length, not to the lesser of the two
range_elem_to_byte_to_len(r, len) ==
    LET result == range_elem_to_byte(r)
    IN  IF result = PANIC THEN PANIC
        ELSE Range(result.start, len)

range_elem_to_byte_clamped(r, len) ==
    LET result == range_elem_to_byte(r)
    IN  IF result = PANIC THEN PANIC
        ELSE Range(result.start, Min(result.end, len))

range_elem_to_poly(r) == range_coarsen(r, payload_chunk_size)

range_byte_to_poly(r) ==
    range_coarsen(r, payload_chunk_size * elem_byte_capacity)

----------------------------------------------------------------------------
(* Results.  VidResult<T>: Ok(T) or Err(VidError::Argument(msg)); a panic  *)
(* (failed assertion, slice or index out of bounds, usize underflow) is the *)
(* third outcome.  msg is the format string's text followed by its         *)
(* arguments.                                                              *)

NoProof == [chunk_range |-> PANIC]

Ok(p) == [tag |-> "Ok", err |-> <<>>, proof |-> p]
ArgErr(m) == [tag |-> "Argument", err |-> m, proof |-> NoProof]
Abort(m) == [tag |-> "Panic", err |-> m, proof |-> NoProof]

\* &payload[a..b] with 0-based a, b: panics unless a <= b <= len
SliceOk(s, a, b) == a <= b /\ b <= Len(s)
Slice(s, a, b) == SubSeq(s, a + 1, b)

check_range_nonempty_and_inside_payload(pl, r) ==
    IF is_empty(r) THEN ArgErr(<<"empty range", r.start, r.end>>)
    ELSE IF r.end > Len(pl)
         THEN ArgErr(<<"range out of bounds for payload len", r.start, r.end, Len(pl)>>)
         ELSE Ok(NoProof)

\* a bug: only the empty polynomial range refused
check_range_poly_at_least_one(range_poly) ==
    IF range_len(range_poly) < 1
    THEN ArgErr(<<"request spans polynomials, expect 1", range_len(range_poly)>>)
    ELSE Ok(NoProof)

check_range_poly(range_poly) ==
    IF range_len(range_poly) # 1
    THEN ArgErr(<<"request spans polynomials, expect 1", range_len(range_poly)>>)
    ELSE Ok(NoProof)

----------------------------------------------------------------------------
(* Collaborators of payload_prover.rs that live elsewhere in the crate:    *)
(* byte packing, the evaluation domain, the KZG commitment scheme, the     *)
(* hash of the commitment list and disperse.                               *)

RECURSIVE ElemOfBytes(_)
\* one field element from at most elem_byte_capacity bytes, little-endian
ElemOfBytes(bs) ==
    IF bs = <<>> THEN 0 ELSE Head(bs) + ByteBase * ElemOfBytes(Tail(bs))

\* bytes_to_field: consecutive groups of elem_byte_capacity bytes, the last
\* group possibly shorter
bytes_to_field(bs) ==
    LET n == (Len(bs) + elem_byte_capacity - 1) \div elem_byte_capacity
    IN  [i \in 1 .. n |->
            ElemOfBytes(SubSeq(bs, (i - 1) * elem_byte_capacity + 1,
                               Min(i * elem_byte_capacity, Len(bs))))]

\* Iterator::take and Iterator::skip
Take(s, n) == SubSeq(s, 1, Min(n, Len(s)))
Skip(s, n) == SubSeq(s, Min(n, Len(s)) + 1, Len(s))

RECURSIVE NextPowerOfTwo(_, _)
NextPowerOfTwo(p, n) == IF p >= n THEN p ELSE NextPowerOfTwo(2 * p, n)

\* Radix2EvaluationDomain::new(payload_chunk_size).size()
DomainSize == NextPowerOfTwo(1, payload_chunk_size)

\* eval_domain.elements(): the domain's points in order; point k stands for
\* the k-th power of the domain's generator
eval_domain_elements == [i \in 1 .. DomainSize |-> i - 1]

\* Advz::polynomial: the polynomial whose evaluations over the domain are
\* the given elements (ifft resizes the vector to the domain's size).  The
\* polynomial is represented by its evaluations over the domain.
polynomial(elems) ==
    [i \in 1 .. DomainSize |-> IF i <= Len(elems) THEN elems[i] ELSE 0]

\* evaluation of a polynomial at a point of the domain
Eval(poly, point) == poly[point + 1]

\* UnivariateKzgPCS::commit, idealised as perfectly binding: a commitment
\* determines its polynomial
pcs_commit(poly) == [cm |-> poly]

\* UnivariateKzgPCS::multi_open: one opening proof per point
multi_open(poly, points) ==
    [i \in 1 .. Len(points) |-> [opens |-> poly, at |-> points[i]]]

\* UnivariateKzgPCS::verify, idealised: an opening proof is accepted exactly
\* for the commitment and point it was made for and the polynomial's value
pcs_verify(poly_commit, point, elem, pf) ==
    /\ pf.opens = poly_commit.cm
    /\ pf.at = point
    /\ Eval(poly_commit.cm, point) = elem

\* Advz::poly_commits_hash, idealised as collision free
poly_commits_hash(poly_commits) == [hash |-> poly_commits]

\* Advz::disperse, as far as commit and common go: one polynomial per
\* payload_chunk_size elements of the packed payload
disperse(pl) ==
    LET elems == bytes_to_field(pl)
        n == (Len(elems) + payload_chunk_size - 1) \div payload_chunk_size
        poly_commits ==
            [i \in 1 .. n |->
                pcs_commit(polynomial(
                    SubSeq(elems, (i - 1) * payload_chunk_size + 1,
                           Min(i * payload_chunk_size, Len(elems)))))]
    IN  [commit |-> poly_commits_hash(poly_commits),
         common |-> [poly_commits |-> poly_commits]]

----------------------------------------------------------------------------
(* payload_proof *)

\* the "index conversion" block of payload_proof, lines 84-89 and 196-201
index_conversion(pl, r) ==
    LET range_elem == range_byte_to_elem(r)
        range_poly == range_elem_to_poly(range_elem)
        start_namespace_byte == index_poly_to_byte(range_poly.start)
        range_elem_byte == range_elem_to_byte_clamped(range_elem, Len(pl))
    IN  [abort |-> IF range_elem = PANIC \/ range_poly = PANIC
                      \/ range_elem_byte = PANIC
                   THEN <<"assertion failed: !range.is_empty()">>
                   ELSE IF range_elem.start < index_byte_to_elem(start_namespace_byte)
                        THEN <<"attempt to subtract with overflow">>
                        ELSE <<>>,
         range_elem |-> range_elem,
         range_poly |-> range_poly,
         start_namespace_byte |-> start_namespace_byte,
         offset_elem |-> range_elem.start - index_byte_to_elem(start_namespace_byte),
         range_elem_byte |-> range_elem_byte]

\* PayloadProver<SmallRangeProof>::payload_proof
payload_proof_small(pl, r) ==
    LET chk == check_range_nonempty_and_inside_payload(pl, r)
        ic == index_conversion(pl, r)
        chkp == check_range_poly(ic.range_poly)
    IN  IF chk.tag # "Ok" THEN chk
        ELSE IF ic.abort # <<>> THEN Abort(ic.abort)
        ELSE IF chkp.tag # "Ok" THEN chkp
        ELSE IF ~SliceOk(pl, ic.start_namespace_byte, Len(pl))
                \/ ~SliceOk(pl, ic.range_elem_byte.start, r.start)
                \/ ~SliceOk(pl, r.end, ic.range_elem_byte.end)
             THEN Abort(<<"slice index out of range">>)
        ELSE
        LET poly == polynomial(Take(
                        bytes_to_field(Slice(pl, ic.start_namespace_byte, Len(pl))),
                        payload_chunk_size))
            points == Take(Skip(eval_domain_elements, ic.offset_elem),
                           range_len(ic.range_elem))
        IN  Ok([proofs |-> multi_open(poly, points),
                prefix_bytes |-> Slice(pl, ic.range_elem_byte.start, r.start),
                suffix_bytes |-> Slice(pl, r.end, ic.range_elem_byte.end),
                chunk_range |-> r])

\* a bug: the elements already taken for prefix_elems skipped once more
\* (elems_iter used as if by_ref had not advanced it)
payload_proof_large_skip_from_start(pl, r) ==
    LET chk == check_range_nonempty_and_inside_payload(pl, r)
        ic == index_conversion(pl, r)
        chkp == check_range_poly(ic.range_poly)
    IN  IF chk.tag # "Ok" THEN chk
        ELSE IF ic.abort # <<>> THEN Abort(ic.abort)
        ELSE IF chkp.tag # "Ok" THEN chkp
        ELSE IF ~SliceOk(pl, ic.start_namespace_byte, Len(pl))
                \/ ~SliceOk(pl, ic.range_elem_byte.start, r.start)
                \/ ~SliceOk(pl, r.end, ic.range_elem_byte.end)
             THEN Abort(<<"slice index out of range">>)
        ELSE
        LET elems_iter == Take(
                bytes_to_field(Slice(pl, ic.start_namespace_byte, Len(pl))),
                payload_chunk_size)
        IN  Ok([prefix_elems |-> Take(elems_iter, ic.offset_elem),
                suffix_elems |-> Skip(elems_iter, range_len(ic.range_elem)),
                prefix_bytes |-> Slice(pl, ic.range_elem_byte.start, r.start),
                suffix_bytes |-> Slice(pl, r.end, ic.range_elem_byte.end),
                chunk_range |-> r])

\* PayloadProver<LargeRangeProof>::payload_proof
payload_proof_large(pl, r) ==
    LET chk == check_range_nonempty_and_inside_payload(pl, r)
        ic == index_conversion(pl, r)
        chkp == check_range_poly(ic.range_poly)
    IN  IF chk.tag # "Ok" THEN chk
        ELSE IF ic.abort # <<>> THEN Abort(ic.abort)
        ELSE IF chkp.tag # "Ok" THEN chkp
        ELSE IF ~SliceOk(pl, ic.start_namespace_byte, Len(pl))
                \/ ~SliceOk(pl, ic.range_elem_byte.start, r.start)
                \/ ~SliceOk(pl, r.end, ic.range_elem_byte.end)
             THEN Abort(<<"slice index out of range">>)
        ELSE
        LET elems_iter == Take(
                bytes_to_field(Slice(pl, ic.start_namespace_byte, Len(pl))),
                payload_chunk_size)
        IN  Ok([prefix_elems |-> Take(elems_iter, ic.offset_elem),
                suffix_elems |-> Skip(Skip(elems_iter, ic.offset_elem),
                                      range_len(ic.range_elem)),
                prefix_bytes |-> Slice(pl, ic.range_elem_byte.start, r.start),
                suffix_bytes |-> Slice(pl, r.end, ic.range_elem_byte.end),
                chunk_range |-> r])

----------------------------------------------------------------------------
(* payload_verify *)

\* VidResult<Result<(), ()>>: tag is the outer result ("Ok", "Argument",
\* or "Panic"), inner the inner one ("Ok", "Err", or "-" when there is
\* none), steps the checks and commitment-scheme calls made, in order.
VOk(inner, steps) == [tag |-> "Ok", inner |-> inner, err |-> <<>>, steps |-> steps]
VArg(m, steps) == [tag |-> "Argument", inner |-> "-", err |-> m, steps |-> steps]
VAbort(m, steps) == [tag |-> "Panic", inner |-> "-", err |-> m, steps |-> steps]
VPass(steps) == [tag |-> "Pass", inner |-> "-", err |-> <<>>, steps |-> steps]

\* a bug: the fingerprint never compared
check_common_commit_consistency_skipped(common, commit) == Ok(NoProof)

\* Advz::check_common_commit_consistency
check_common_commit_consistency(common, commit) ==
    IF commit # poly_commits_hash(common.poly_commits)
    THEN ArgErr(<<"common inconsistent with commit">>)
    ELSE Ok(NoProof)

\* Advz::check_stmt_proof_consistency
check_stmt_proof_consistency(st, proof_range) ==
    IF is_empty(st.range)
    THEN ArgErr(<<"empty range", st.range.start, st.range.end>>)
    ELSE IF Len(st.payload_subslice) # range_len(st.range)
    THEN ArgErr(<<"payload_subslice length inconsistent with range length",
                  Len(st.payload_subslice), range_len(st.range)>>)
    ELSE IF st.range # proof_range
    THEN ArgErr(<<"statement range differs from proof range",
                  st.range.start, st.range.end, proof_range.start, proof_range.end>>)
    ELSE Ok(NoProof)

\* a bug the ordering claim must notice: the commit check before the span check
verify_checks_small_commit_first(st, pf) ==
    LET c1 == check_stmt_proof_consistency(st, pf.chunk_range)
        range_elem == range_byte_to_elem(pf.chunk_range)
        range_poly == range_elem_to_poly(range_elem)
        c2 == check_range_poly(range_poly)
        c3 == check_common_commit_consistency(st.common, st.commit)
        S1 == <<"check_stmt_proof_consistency">>
        S2 == Append(S1, "check_common_commit_consistency")
        S3 == Append(S2, "check_range_poly")
    IN  IF c1.tag # "Ok" THEN VArg(c1.err, S1)
        ELSE IF c3.tag # "Ok" THEN VArg(c3.err, S2)
        ELSE IF c2.tag # "Ok" THEN VArg(c2.err, S3)
        ELSE VPass(S3)

\* PayloadProver<SmallRangeProof>::payload_verify, lines 126-135: the three
\* checks and the index conversion between them
verify_checks_small(st, pf) ==
    LET c1 == check_stmt_proof_consistency(st, pf.chunk_range)
        range_elem == range_byte_to_elem(pf.chunk_range)
        range_poly == range_elem_to_poly(range_elem)
        start_namespace_byte == index_poly_to_byte(range_poly.start)
        c2 == check_range_poly(range_poly)
        c3 == check_common_commit_consistency(st.common, st.commit)
        S1 == <<"check_stmt_proof_consistency">>
        S2 == Append(S1, "check_range_poly")
        S3 == Append(S2, "check_common_commit_consistency")
    IN  IF c1.tag # "Ok" THEN VArg(c1.err, S1)
        ELSE IF range_elem = PANIC \/ range_poly = PANIC
        THEN VAbort(<<"assertion failed: !range.is_empty()">>, S1)
        ELSE IF range_elem.start < index_byte_to_elem(start_namespace_byte)
        THEN VAbort(<<"attempt to subtract with overflow">>, S1)
        ELSE IF c2.tag # "Ok" THEN VArg(c2.err, S2)
        ELSE IF c3.tag # "Ok" THEN VArg(c3.err, S3)
        ELSE VPass(S3)

\* PayloadProver<LargeRangeProof>::payload_verify, lines 226-232
verify_checks_large(st, pf) ==
    LET c1 == check_stmt_proof_consistency(st, pf.chunk_range)
        range_poly == range_byte_to_poly(pf.chunk_range)
        c2 == check_range_poly(range_poly)
        c3 == check_common_commit_consistency(st.common, st.commit)
        S1 == <<"check_stmt_proof_consistency">>
        S2 == Append(S1, "check_range_poly")
        S3 == Append(S2, "check_common_commit_consistency")
    IN  IF c1.tag # "Ok" THEN VArg(c1.err, S1)
        ELSE IF range_poly = PANIC
        THEN VAbort(<<"assertion failed: !range.is_empty()">>, S1)
        ELSE IF c2.tag # "Ok" THEN VArg(c2.err, S2)
        ELSE IF c3.tag # "Ok" THEN VArg(c3.err, S3)
        ELSE VPass(S3)

\* PayloadProver<SmallRangeProof>::payload_verify
payload_verify_small(st, pf) ==
    LET pre == verify_checks_small(st, pf)
        range_elem == range_byte_to_elem(pf.chunk_range)
        range_poly == range_elem_to_poly(range_elem)
        start_namespace_byte == index_poly_to_byte(range_poly.start)
        offset_elem == range_elem.start - index_byte_to_elem(start_namespace_byte)
        data_elems == bytes_to_field(
            pf.prefix_bytes \o st.payload_subslice \o pf.suffix_bytes)
        points == Take(Skip(eval_domain_elements, offset_elem),
                       range_len(range_elem))
    IN  IF pre.tag # "Pass" THEN pre
        ELSE IF Len(data_elems) # Len(pf.proofs)
        THEN VArg(<<"data len differs from proof len",
                    Len(data_elems), Len(pf.proofs)>>, pre.steps)
        ELSE IF Len(data_elems) # Len(points)
        THEN VAbort(<<"assertion failed: data_elems.len() == points.len()">>,
                    pre.steps)
        ELSE IF range_poly.start >= Len(st.common.poly_commits)
        THEN VAbort(<<"index out of bounds">>, pre.steps)
        ELSE
        LET poly_commit == st.common.poly_commits[range_poly.start + 1]
            bad == {i \in 1 .. Len(points) :
                       ~pcs_verify(poly_commit, points[i], data_elems[i],
                                   pf.proofs[i])}
            calls == IF bad = {} THEN Len(points)
                     ELSE CHOOSE i \in bad : \A j \in bad : i <= j
        IN  VOk(IF bad = {} THEN "Ok" ELSE "Err",
                pre.steps \o [i \in 1 .. calls |-> "pcs_verify"])

\* a bug: the polynomial rebuilt without the proof's suffix_elems
payload_verify_large_without_suffix_elems(st, pf) ==
    LET pre == verify_checks_large(st, pf)
        range_poly == range_byte_to_poly(pf.chunk_range)
        poly == polynomial(
            pf.prefix_elems
            \o bytes_to_field(
                   pf.prefix_bytes \o st.payload_subslice \o pf.suffix_bytes))
        poly_commit == pcs_commit(poly)
        steps == Append(pre.steps, "pcs_commit")
    IN  IF pre.tag # "Pass" THEN pre
        ELSE IF range_poly.start >= Len(st.common.poly_commits)
        THEN VAbort(<<"index out of bounds">>, steps)
        ELSE IF poly_commit # st.common.poly_commits[range_poly.start + 1]
        THEN VOk("Err", steps)
        ELSE VOk("Ok", steps)

\* PayloadProver<LargeRangeProof>::payload_verify
payload_verify_large(st, pf) ==
    LET pre == verify_checks_large(st, pf)
        range_poly == range_byte_to_poly(pf.chunk_range)
        poly == polynomial(
            pf.prefix_elems
            \o bytes_to_field(
                   pf.prefix_bytes \o st.payload_subslice \o pf.suffix_bytes)
            \o pf.suffix_elems)
        poly_commit == pcs_commit(poly)
        steps == Append(pre.steps, "pcs_commit")
    IN  IF pre.tag # "Pass" THEN pre
        ELSE IF range_poly.start >= Len(st.common.poly_commits)
        THEN VAbort(<<"index out of bounds">>, steps)
        ELSE IF poly_commit # st.common.poly_commits[range_poly.start + 1]
        THEN VOk("Err", steps)
        ELSE VOk("Ok", steps)

----------------------------------------------------------------------------
(* The state machine: a prover proves a range of its payload, a statement  *)
(* and the proof reach a verifier, possibly altered on the way.            *)

RECURSIVE SeqsUpTo(_, _)
\* all sequences over S of length at most n
SeqsUpTo(S, n) ==
    IF n = 0 THEN {<<>>}
    ELSE LET shorter == SeqsUpTo(S, n - 1)
         IN  shorter \cup {Append(q, x) : q \in {t \in shorter : Len(t) = n - 1}, x \in S}

Payloads == SeqsUpTo(Byte, MaxPayloadLen)

\* every Range<usize> with both ends at most one past the longest payload,
\* the empty and the inverted ones included
Ranges == {Range(s, e) : s \in 0 .. MaxPayloadLen + 1, e \in 0 .. MaxPayloadLen + 1}

NoRes == [tag |-> "-", err |-> <<>>, proof |-> NoProof]
NoStmt == [payload_subslice |-> <<>>, range |-> PANIC,
           commit |-> poly_commits_hash(<<>>), common |-> [poly_commits |-> <<>>]]
NoVer == [tag |-> "-", inner |-> "-", err |-> <<>>, steps |-> <<>>]
NoConv == [op |-> "-", denominator |-> 0, out |-> PANIC, via |-> PANIC]

\* the fingerprint of a commitment list other than common's: one more
\* commitment, to the zero polynomial
OtherCommit(common) ==
    poly_commits_hash(Append(common.poly_commits, pcs_commit(polynomial(<<>>))))

Init ==
    /\ payload \in Payloads
    /\ range \in Ranges
    /\ kind = "-"
    /\ proofRes = NoRes
    /\ stmt = NoStmt
    /\ proof = NoProof
    /\ tamper = "none"
    /\ verRes = NoVer
    /\ phase = "start"
    /\ conv = NoConv

\* advz.payload_proof(&payload, range) for SmallRangeProof
ProveSmall ==
    /\ phase = "start"
    /\ kind' = "small"
    /\ proofRes' = payload_proof_small(payload, range)
    /\ phase' = "proved"
    /\ UNCHANGED <<payload, range, stmt, proof, tamper, verRes, conv>>

\* advz.payload_proof(&payload, range) for LargeRangeProof
ProveLarge ==
    /\ phase = "start"
    /\ kind' = "large"
    /\ proofRes' = payload_proof_large(payload, range)
    /\ phase' = "proved"
    /\ UNCHANGED <<payload, range, stmt, proof, tamper, verRes, conv>>

\* the honest statement for the proved range, as the test builds it from
\* disperse's commit and common
MakeStatement ==
    /\ phase = "proved"
    /\ proofRes.tag = "Ok"
    /\ LET d == disperse(payload)
       IN  stmt' = [payload_subslice |-> Slice(payload, range.start, range.end),
                    range |-> range,
                    commit |-> d.commit,
                    common |-> d.common]
    /\ proof' = proofRes.proof
    /\ phase' = "ready"
    /\ UNCHANGED <<payload, range, kind, proofRes, tamper, verRes, conv>>

\* one byte of stmt.payload_subslice changed
TamperSubslice ==
    /\ phase = "ready" /\ tamper = "none"
    /\ \E i \in 1 .. Len(stmt.payload_subslice), b \in Byte :
          /\ b # stmt.payload_subslice[i]
          /\ stmt' = [stmt EXCEPT !.payload_subslice[i] = b]
    /\ tamper' = "payload_subslice"
    /\ UNCHANGED <<payload, range, kind, proofRes, proof, verRes, phase, conv>>

\* one byte of proof.prefix_bytes changed
TamperPrefixByte ==
    /\ phase = "ready" /\ tamper = "none"
    /\ \E i \in 1 .. Len(proof.prefix_bytes), b \in Byte :
          /\ b # proof.prefix_bytes[i]
          /\ proof' = [proof EXCEPT !.prefix_bytes[i] = b]
    /\ tamper' = "prefix_bytes"
    /\ UNCHANGED <<payload, range, kind, proofRes, stmt, verRes, phase, conv>>

\* one byte of proof.suffix_bytes changed
TamperSuffixByte ==
    /\ phase = "ready" /\ tamper = "none"
    /\ \E i \in 1 .. Len(proof.suffix_bytes), b \in Byte :
          /\ b # proof.suffix_bytes[i]
          /\ proof' = [proof EXCEPT !.suffix_bytes[i] = b]
    /\ tamper' = "suffix_bytes"
    /\ UNCHANGED <<payload, range, kind, proofRes, stmt, verRes, phase, conv>>

\* one element of a LargeRangeProof's prefix_elems changed
TamperPrefixElem ==
    /\ phase = "ready" /\ tamper = "none" /\ kind = "large"
    /\ \E i \in 1 .. Len(proof.prefix_elems) : \E v \in {0, proof.prefix_elems[i] + 1} :
          /\ v # proof.prefix_elems[i]
          /\ proof' = [proof EXCEPT !.prefix_elems[i] = v]
    /\ tamper' = "prefix_elems"
    /\ UNCHANGED <<payload, range, kind, proofRes, stmt, verRes, phase, conv>>

\* one element of a LargeRangeProof's suffix_elems changed
TamperSuffixElem ==
    /\ phase = "ready" /\ tamper = "none" /\ kind = "large"
    /\ \E i \in 1 .. Len(proof.suffix_elems) : \E v \in {0, proof.suffix_elems[i] + 1} :
          /\ v # proof.suffix_elems[i]
          /\ proof' = [proof EXCEPT !.suffix_elems[i] = v]
    /\ tamper' = "suffix_elems"
    /\ UNCHANGED <<payload, range, kind, proofRes, stmt, verRes, phase, conv>>

\* stmt.commit replaced by the fingerprint of another commitment list
TamperCommit ==
    /\ phase = "ready" /\ tamper = "none"
    /\ stmt' = [stmt EXCEPT !.commit = OtherCommit(stmt.common)]
    /\ tamper' = "commit"
    /\ UNCHANGED <<payload, range, kind, proofRes, proof, verRes, phase, conv>>

\* stmt.common and stmt.commit replaced by those of a shorter payload: the
\* first n polynomials' commitments and their fingerprint
TruncateCommon ==
    /\ phase = "ready" /\ tamper = "none"
    /\ \E n \in 0 .. Len(stmt.common.poly_commits) - 1 :
          LET pcs == SubSeq(stmt.common.poly_commits, 1, n)
          IN  stmt' = [stmt EXCEPT !.common = [poly_commits |-> pcs],
                                   !.commit = poly_commits_hash(pcs)]
    /\ tamper' = "common_truncated"
    /\ UNCHANGED <<payload, range, kind, proofRes, proof, verRes, phase, conv>>

\* a SmallRangeProof made longer: one more element's worth of prefix bytes
\* and one more opening proof
ExtendPrefix ==
    /\ phase = "ready" /\ tamper = "none" /\ kind = "small"
    /\ proof' = [proof EXCEPT
                    !.prefix_bytes = [i \in 1 .. elem_byte_capacity |-> 0] \o @,
                    !.proofs = <<@[1]>> \o @]
    /\ tamper' = "prefix_extended"
    /\ UNCHANGED <<payload, range, kind, proofRes, stmt, verRes, phase, conv>>

\* advz.payload_verify(stmt, &proof) for SmallRangeProof
VerifySmall ==
    /\ phase = "ready" /\ kind = "small"
    /\ verRes' = payload_verify_small(stmt, proof)
    /\ phase' = "verified"
    /\ UNCHANGED <<payload, range, kind, proofRes, stmt, proof, tamper, conv>>

\* advz.payload_verify(stmt, &proof) for LargeRangeProof
VerifyLarge ==
    /\ phase = "ready" /\ kind = "large"
    /\ verRes' = payload_verify_large(stmt, proof)
    /\ phase' = "verified"
    /\ UNCHANGED <<payload, range, kind, proofRes, stmt, proof, tamper, conv>>

\* A statement and a proof written without the prover, for the range the
\* prover was asked about: the subslice is n bytes read from the payload at
\* range.start (zero where the payload has ended), the commit is that of
\* common or another, the proof's range is the statement's or one byte
\* longer, and the proof carries no boundary bytes, openings or elements.
Forge ==
    /\ phase = "proved"
    /\ \E n \in {range_len(range), range_len(range) + 1},
          good_commit \in BOOLEAN, same_range \in BOOLEAN :
          LET d == disperse(payload)
              sub == [i \in 1 .. n |->
                         IF range.start + i <= Len(payload)
                         THEN payload[range.start + i] ELSE 0]
              pr == IF same_range THEN range ELSE Range(range.start, range.end + 1)
          IN  /\ stmt' = [payload_subslice |-> sub,
                          range |-> range,
                          commit |-> IF good_commit THEN d.commit
                                     ELSE OtherCommit(d.common),
                          common |-> d.common]
              /\ proof' = IF kind = "small"
                          THEN [proofs |-> <<>>, prefix_bytes |-> <<>>,
                                suffix_bytes |-> <<>>, chunk_range |-> pr]
                          ELSE [prefix_elems |-> <<>>, suffix_elems |-> <<>>,
                                prefix_bytes |-> <<>>, suffix_bytes |-> <<>>,
                                chunk_range |-> pr]
    /\ tamper' = "forged"
    /\ phase' = "ready"
    /\ UNCHANGED <<payload, range, kind, proofRes, verRes, conv>>

Next ==
    \/ ProveSmall
    \/ ProveLarge
    \/ MakeStatement
    \/ TamperSubslice
    \/ TamperPrefixByte
    \/ TamperSuffixByte
    \/ TamperPrefixElem
    \/ TamperSuffixElem
    \/ TamperCommit
    \/ TruncateCommon
    \/ ExtendPrefix
    \/ VerifySmall
    \/ VerifyLarge

Spec == Init /\ [][Next]_vars

\* The adversarial specification: statements and proofs that no prover
\* made.  What is forged does not depend on the payload's bytes, so one
\* payload of every length is enough.
AdvPayloads == {[i \in 1 .. n |-> i % ByteBase] : n \in 0 .. MaxPayloadLen}

InitAdv ==
    /\ payload \in AdvPayloads
    /\ range \in Ranges
    /\ kind = "-"
    /\ proofRes = NoRes
    /\ stmt = NoStmt
    /\ proof = NoProof
    /\ tamper = "none"
    /\ verRes = NoVer
    /\ phase = "start"
    /\ conv = NoConv

NextAdv ==
    \/ ProveSmall
    \/ ProveLarge
    \/ MakeStatement
    \/ Forge
    \/ TamperSubslice
    \/ TamperPrefixByte
    \/ TamperSuffixByte
    \/ TamperPrefixElem
    \/ TamperSuffixElem
    \/ TamperCommit
    \/ TruncateCommon
    \/ ExtendPrefix
    \/ VerifySmall
    \/ VerifyLarge

SpecAdv == InitAdv /\ [][NextAdv]_vars

----------------------------------------------------------------------------
(* The index conversions on their own: range_coarsen for any denominator,  *)
(* and the two routes from bytes to polynomials.                           *)

InitConv ==
    /\ payload = <<>>
    /\ range \in Ranges
    /\ kind = "-"
    /\ proofRes = NoRes
    /\ stmt = NoStmt
    /\ proof = NoProof
    /\ tamper = "none"
    /\ verRes = NoVer
    /\ phase = "conv"
    /\ conv = NoConv

\* range_coarsen(&range, denominator)
Coarsen ==
    /\ phase = "conv"
    /\ \E d \in 1 .. MaxDenominator :
          conv' = [op |-> "range_coarsen", denominator |-> d,
                   out |-> range_coarsen(range, d), via |-> PANIC]
    /\ UNCHANGED <<payload, range, kind, proofRes, stmt, proof, tamper, verRes, phase>>

\* self.range_byte_to_poly(&range), as large-range verify converts, next to
\* self.range_elem_to_poly(&self.range_byte_to_elem(&range)), as the provers
\* and small-range verify convert
ByteToPoly ==
    /\ phase = "conv"
    /\ conv' = [op |-> "range_byte_to_poly",
                denominator |-> payload_chunk_size * elem_byte_capacity,
                out |-> range_byte_to_poly(range),
                via |-> range_elem_to_poly(range_byte_to_elem(range))]
    /\ UNCHANGED <<payload, range, kind, proofRes, stmt, proof, tamper, verRes, phase>>

NextConv ==
    \/ Coarsen
    \/ ByteToPoly

SpecConv == InitConv /\ [][NextConv]_vars

----------------------------------------------------------------------------
(* What the claims speak of, stated without the code's conversions. *)

PolyBytes == payload_chunk_size * elem_byte_capacity

\* the polynomials (elements) that hold at least one byte of r
PolysTouched(r) == {i \div PolyBytes : i \in r.start .. r.end - 1}
ElemsTouched(r) == {i \div elem_byte_capacity : i \in r.start .. r.end - 1}

IndexSet(r) == {i \in 0 .. r.end : r.start <= i /\ i < r.end}

SpansMessage(r) ==
    <<"request spans polynomials, expect 1", Cardinality(PolysTouched(r))>>

\* the three preconditions of payload_verify, as violated by (stmt, proof)
StmtViolation ==
    \/ stmt.range.start >= stmt.range.end
    \/ Len(stmt.payload_subslice) # stmt.range.end - stmt.range.start
    \/ stmt.range.start # proof.chunk_range.start
    \/ stmt.range.end # proof.chunk_range.end
SpanViolation == Cardinality(PolysTouched(proof.chunk_range)) # 1
CommitViolation == poly_commits_hash(stmt.common.poly_commits) # stmt.commit

\* the message of the first sub-check of check_stmt_proof_consistency that
\* (stmt, proof) violates
StmtMessage ==
    IF stmt.range.start >= stmt.range.end THEN "empty range"
    ELSE IF Len(stmt.payload_subslice) # stmt.range.end - stmt.range.start
    THEN "payload_subslice length inconsistent with range length"
    ELSE "statement range differs from proof range"

Verified == phase = "verified"
VerifiedOkOk == Verified /\ verRes.tag = "Ok" /\ verRes.inner = "Ok"
Proved == proofRes.tag # "-"

----------------------------------------------------------------------------
(* C1 *)

\* C1: round trip.  For every payload and every range payload_proof
\* accepts (non-empty, inside the payload, inside one polynomial, the
\* truncated last one included), payload_verify of the honest statement
\* and the returned proof is Ok(Ok(())), for both proof kinds.
C1_RoundTrip ==
    (Verified /\ tamper = "none") =>
        /\ proofRes.tag = "Ok"
        /\ proof = proofRes.proof
        /\ stmt.payload_subslice = Slice(payload, range.start, range.end)
        /\ verRes.tag = "Ok"
        /\ verRes.inner = "Ok"

\* a large-range round trip inside a truncated last polynomial that is not
\* the first one
C1_Witness ==
    /\ VerifiedOkOk /\ tamper = "none" /\ kind = "large"
    /\ Len(payload) % PolyBytes # 0
    /\ range.start \div PolyBytes = Len(payload) \div PolyBytes
    /\ range.start \div PolyBytes >= 1

----------------------------------------------------------------------------
(* C2 *)

TamperedData ==
    tamper \in {"payload_subslice", "prefix_bytes", "suffix_bytes",
                "prefix_elems", "suffix_elems"}

\* C2: tamper sensitivity.  One byte of payload_subslice, prefix_bytes or
\* suffix_bytes, or one element of prefix_elems or suffix_elems, changed
\* in an honest pair (lengths, range, commit and common as they were):
\* payload_verify returns Ok(Err(())), not an argument error and no panic.
C2_TamperSensitive ==
    (Verified /\ TamperedData) =>
        /\ verRes.tag = "Ok"
        /\ verRes.inner = "Err"
        /\ stmt.range = range /\ proof.chunk_range = range
        /\ Len(stmt.payload_subslice) = range_len(range)
        /\ Len(proof.prefix_bytes) = Len(proofRes.proof.prefix_bytes)
        /\ Len(proof.suffix_bytes) = Len(proofRes.proof.suffix_bytes)

\* a changed suffix element of a large-range proof is noticed
C2_Witness ==
    /\ Verified /\ tamper = "suffix_elems"
    /\ verRes.tag = "Ok" /\ verRes.inner = "Err"
    /\ proof.suffix_elems # proofRes.proof.suffix_elems

----------------------------------------------------------------------------
(* C3 *)

\* C3: a non-empty range that touches more than one polynomial gets an
\* argument error from payload_proof and from payload_verify, both kinds,
\* never a proof and never an inner result; the error is "request spans N
\* polynomials, expect 1", N the number of polynomials touched, whenever
\* the check before check_range_poly (the range inside the payload; the
\* statement consistent with the proof) has passed.
C3_SpanRejected ==
    /\ (Proved /\ ~is_empty(range) /\ Cardinality(PolysTouched(range)) > 1) =>
          /\ proofRes.tag = "Argument"
          /\ proofRes.proof = NoProof
          /\ range.end <= Len(payload) => proofRes.err = SpansMessage(range)
    /\ (Verified /\ ~is_empty(stmt.range)
          /\ Cardinality(PolysTouched(stmt.range)) > 1) =>
          /\ verRes.tag = "Argument"
          /\ verRes.inner = "-"
          /\ ~StmtViolation => verRes.err = SpansMessage(stmt.range)

\* a range over two polynomials, refused by the prover and, forged into a
\* consistent statement and proof, refused by the verifier
C3_Witness ==
    /\ Verified
    /\ range.end <= Len(payload)
    /\ Cardinality(PolysTouched(range)) = 2
    /\ proofRes.err = <<"request spans polynomials, expect 1", 2>>
    /\ stmt.range = range /\ ~StmtViolation
    /\ verRes.err = <<"request spans polynomials, expect 1", 2>>

----------------------------------------------------------------------------
(* C4 *)

\* C4: payload_proof is total.  It returns an argument error when the
\* range is empty, ends beyond the payload or touches more than one
\* polynomial, and a proof in every other case; it never panics.
C4_ProofTotal ==
    Proved =>
        /\ proofRes.tag \in {"Ok", "Argument"}
        /\ proofRes.tag = "Argument" <=>
              \/ range.start >= range.end
              \/ range.end > Len(payload)
              \/ Cardinality(PolysTouched(range)) > 1

\* a proof for a range that ends in a truncated last element, where the
\* element's byte range is clamped to the payload
C4_Witness ==
    /\ phase = "proved" /\ proofRes.tag = "Ok"
    /\ Len(payload) % elem_byte_capacity # 0
    /\ range.end = Len(payload)
    /\ range.start < range.end - 1

----------------------------------------------------------------------------
(* C5 *)

\* C5 as claimed: a statement and proof that agree on a non-empty range in
\* one polynomial, with a subslice of the range's length and commit =
\* Hash(common), but whose polynomial has no commitment in common, get an
\* argument error from payload_verify and no panic.
C5_BeyondCommitsIsArgumentError ==
    (/\ Verified
     /\ ~StmtViolation /\ ~SpanViolation /\ ~CommitViolation
     /\ \A q \in PolysTouched(stmt.range) : q >= Len(stmt.common.poly_commits))
    => verRes.tag = "Argument"

----------------------------------------------------------------------------
(* C6 *)

\* C6: commit binding.  Whenever the hash of stmt.common.poly_commits
\* differs from stmt.commit, payload_verify returns an argument error and
\* no inner result; the error is "common inconsistent with commit" unless
\* one of the two earlier checks has already failed.
C6_CommitBinding ==
    (Verified /\ CommitViolation) =>
        /\ verRes.tag = "Argument"
        /\ verRes.inner = "-"
        /\ (~StmtViolation /\ ~SpanViolation) =>
              verRes.err = <<"common inconsistent with commit">>

\* an honest statement and proof with only the commit replaced
C6_Witness ==
    /\ Verified /\ tamper = "commit"
    /\ proof = proofRes.proof
    /\ stmt.common = disperse(payload).common
    /\ verRes.err = <<"common inconsistent with commit">>

----------------------------------------------------------------------------
(* C7 *)

CheckOrder == <<"check_stmt_proof_consistency", "check_range_poly",
                "check_common_commit_consistency">>

\* C7: payload_verify runs check_stmt_proof_consistency (empty range, then
\* subslice length, then range equality), check_range_poly and
\* check_common_commit_consistency in this order; the error returned is
\* that of the first check violated, no later check has run by then, and
\* pcs_commit and pcs_verify are called only after all three have passed.
C7_CheckOrder ==
    Verified =>
        /\ Len(verRes.steps) >= 1
        /\ \A i \in 1 .. Len(verRes.steps) :
              IF i <= 3 THEN verRes.steps[i] = CheckOrder[i]
              ELSE /\ verRes.steps[i] \in {"pcs_commit", "pcs_verify"}
                   /\ ~StmtViolation /\ ~SpanViolation /\ ~CommitViolation
        /\ StmtViolation =>
              /\ verRes.tag = "Argument"
              /\ verRes.err[1] = StmtMessage
              /\ Len(verRes.steps) = 1
        /\ (~StmtViolation /\ SpanViolation) =>
              /\ verRes.tag = "Argument"
              /\ verRes.err = SpansMessage(proof.chunk_range)
              /\ Len(verRes.steps) = 2
        /\ (~StmtViolation /\ ~SpanViolation /\ CommitViolation) =>
              /\ verRes.tag = "Argument"
              /\ verRes.err = <<"common inconsistent with commit">>
              /\ Len(verRes.steps) = 3

\* a small-range input that violates the span check and the commit check
\* at once, and is refused for the span
C7_Witness ==
    /\ Verified /\ kind = "small"
    /\ ~StmtViolation /\ SpanViolation /\ CommitViolation
    /\ verRes.err[1] = "request spans polynomials, expect 1"
    /\ verRes.steps = <<"check_stmt_proof_consistency", "check_range_poly">>

----------------------------------------------------------------------------
(* C8 *)

\* C8 as claimed: in small-range verify, once the three checks and the
\* check data_elems.len() == proof.proofs.len() have passed, the
\* assertion data_elems.len() == points.len() does not fail.
C8_SanityAssertionHolds ==
    (/\ Verified /\ kind = "small"
     /\ ~StmtViolation /\ ~SpanViolation /\ ~CommitViolation
     /\ Len(bytes_to_field(proof.prefix_bytes \o stmt.payload_subslice
                           \o proof.suffix_bytes)) = Len(proof.proofs))
    => verRes.err # <<"assertion failed: data_elems.len() == points.len()">>

----------------------------------------------------------------------------
(* C9 *)

\* C9: for a non-empty range [s, e) and a denominator d >= 1,
\* range_coarsen returns the non-empty range [s div d, ((e-1) div d) + 1),
\* whose indices are exactly {i div d : s <= i < e}; when e is a multiple
\* of d the index e div d is not in it; and range_byte_to_poly equals
\* range_elem_to_poly after range_byte_to_elem.
C9_CoarsenExact ==
    (phase = "conv" /\ conv.op # "-" /\ ~is_empty(range)) =>
        LET d == conv.denominator
        IN  /\ conv.out # PANIC
            /\ ~is_empty(conv.out)
            /\ conv.out.start = range.start \div d
            /\ conv.out.end = ((range.end - 1) \div d) + 1
            /\ IndexSet(conv.out) = {i \div d : i \in range.start .. range.end - 1}
            /\ range.end % d = 0 => (range.end \div d) \notin IndexSet(conv.out)
            /\ conv.op = "range_byte_to_poly" => conv.out = conv.via

\* a range that ends exactly on a multiple of the denominator
C9_Witness ==
    /\ phase = "conv" /\ conv.op = "range_coarsen"
    /\ conv.denominator > 1
    /\ range.start < range.end
    /\ range.end % conv.denominator = 0
    /\ range_len(conv.out) = 2

----------------------------------------------------------------------------
(* C10 *)

\* C10: in every proof payload_proof returns, prefix_bytes ++
\* payload[range] ++ suffix_bytes is payload[a..b], a the first byte of the
\* element holding range.start, b the first byte after the element holding
\* range.end - 1 or the payload's length if that is less; prefix_bytes is
\* payload[a..range.start], of length range.start mod elem_byte_capacity,
\* suffix_bytes is payload[range.end..b], both are shorter than one
\* element, and chunk_range is the range asked for.
C10_BoundaryBytes ==
    (Proved /\ proofRes.tag = "Ok") =>
        LET p == proofRes.proof
            a == (range.start \div elem_byte_capacity) * elem_byte_capacity
            b == Min((((range.end - 1) \div elem_byte_capacity) + 1)
                        * elem_byte_capacity, Len(payload))
        IN  /\ p.prefix_bytes \o Slice(payload, range.start, range.end)
                  \o p.suffix_bytes = Slice(payload, a, b)
            /\ p.prefix_bytes = Slice(payload, a, range.start)
            /\ p.suffix_bytes = Slice(payload, range.end, b)
            /\ Len(p.prefix_bytes) = range.start % elem_byte_capacity
            /\ Len(p.prefix_bytes) < elem_byte_capacity
            /\ Len(p.suffix_bytes) < elem_byte_capacity
            /\ p.chunk_range = range

\* a proof with a non-empty prefix and a non-empty suffix
C10_Witness ==
    /\ Proved /\ proofRes.tag = "Ok"
    /\ Len(proofRes.proof.prefix_bytes) > 0
    /\ Len(proofRes.proof.suffix_bytes) > 0
    /\ range.end < Len(payload)

----------------------------------------------------------------------------
(* C11 *)

\* the elements of polynomial q of a payload: those packed from its bytes
\* q * PolyBytes up to (q + 1) * PolyBytes, or up to the payload's end
PolyElems(pl, q) ==
    bytes_to_field(Slice(pl, q * PolyBytes, Min((q + 1) * PolyBytes, Len(pl))))

\* C11: in every LargeRangeProof payload_proof returns, prefix_elems has
\* as many elements as lie between the polynomial's first element and the
\* element holding range.start, and prefix_elems ++ the elements packed
\* from prefix_bytes ++ payload[range] ++ suffix_bytes ++ suffix_elems is,
\* element for element, the element sequence of the polynomial that holds
\* the range (at most payload_chunk_size elements, fewer for a truncated
\* last polynomial): no touched element twice, none left out.
C11_ElementSplit ==
    (Proved /\ kind = "large" /\ proofRes.tag = "Ok") =>
        LET p == proofRes.proof
            q == range.start \div PolyBytes
            touched == bytes_to_field(
                p.prefix_bytes \o Slice(payload, range.start, range.end)
                \o p.suffix_bytes)
            whole == PolyElems(payload, q)
        IN  /\ Len(p.prefix_elems)
                  = (range.start \div elem_byte_capacity) - q * payload_chunk_size
            /\ Len(touched) = Cardinality(ElemsTouched(range))
            /\ Len(whole) <= payload_chunk_size
            /\ Len(p.prefix_elems) + Len(touched) + Len(p.suffix_elems) = Len(whole)
            /\ p.prefix_elems \o touched \o p.suffix_elems = whole

\* a proof with an element before the touched one, in a last polynomial
\* whose last element is truncated
C11_Witness ==
    /\ Proved /\ kind = "large" /\ proofRes.tag = "Ok"
    /\ Len(proofRes.proof.prefix_elems) >= 1
    /\ Len(payload) % elem_byte_capacity # 0
    /\ range.end = Len(payload)
    /\ range.start \div PolyBytes = (Len(payload) - 1) \div PolyBytes

====
